---- MODULE Spec2Model ----
(***************************************************************************)
(* Model of the pod metadata generator, kubernetes/metadata/pod.go.        *)
(*                                                                         *)
(* The pod struct `p` is the shared, immutable resolver; every caller      *)
(* (goroutine) has a frame holding the locals of the call it is running.   *)
(* Documents (mapstr.M) are modelled as tagged values:                     *)
(*   NilV        the nil interface{} (also what GetValue yields on a miss) *)
(*   NilM        a nil mapstr.M                                            *)
(*   Str(s)      a Go string                                               *)
(*   M(f)        a non-nil map, f a function from keys to values           *)
(***************************************************************************)
EXTENDS Naturals, Sequences, FiniteSets, TLC

VARIABLES p, frame

vars == <<p, frame>>

(* ------------------------------ bounds -------------------------------- *)

\* Number of distinct non-empty owner names (ReplicaSet / Job names).
MaxNames == 2

(* ------------------------------ values -------------------------------- *)

NilV == [t |-> "nil"]
NilM == [t |-> "nilmap"]
Str(s) == [t |-> "str", s |-> s]
M(f) == [t |-> "map", m |-> f]
Panic == [t |-> "panic"]

EmptyMap == [k \in {} |-> NilV]

IsMap(v) == v.t = "map"

\* obj.(string) type assertion
IsString(v) == v.t = "str"

\* Go's index expression m[k] on a mapstr.M: nil for a missing key or nil map
Index(m, k) == IF IsMap(m) /\ k \in DOMAIN m.m THEN m.m[k] ELSE NilV

\* mapstr.M.GetValue(key): walks the dotted key; nil when any step is missing
\* or an intermediate value is not a map (the error is dropped by the callers)
RECURSIVE GetValue(_, _)
GetValue(m, path) ==
    IF ~IsMap(m) THEN NilV
    ELSE IF Head(path) \notin DOMAIN m.m THEN NilV
    ELSE IF Len(path) = 1 THEN m.m[Head(path)]
    ELSE GetValue(m.m[Head(path)], Tail(path))

\* whether the dotted key exists in the document at all (whatever its value)
RECURSIVE HasKey(_, _)
HasKey(m, path) ==
    IF ~IsMap(m) THEN FALSE
    ELSE IF Head(path) \notin DOMAIN m.m THEN FALSE
    ELSE IF Len(path) = 1 THEN TRUE
    ELSE HasKey(m.m[Head(path)], Tail(path))

\* mapstr.M.Put(key, value): creates the missing intermediate maps; when an
\* existing intermediate value is not a map the call fails and writes nothing
\* (the callers drop the error)
\* (a nil receiver is never reached: the document of a Pod is non-nil)
RECURSIVE Put(_, _, _)
Put(m, path, v) ==
    IF ~IsMap(m) THEN m
    ELSE IF Len(path) = 1 THEN M((Head(path) :> v) @@ m.m)
    ELSE IF Head(path) \notin DOMAIN m.m
         THEN M((Head(path) :> Put(M(EmptyMap), Tail(path), v)) @@ m.m)
    ELSE IF ~IsMap(m.m[Head(path)]) THEN m
    ELSE M((Head(path) :> Put(m.m[Head(path)], Tail(path), v)) @@ m.m)

\* mapstr.M.DeepUpdate(d) with overwrite = false (mapstr.M.DeepUpdateNoOverwrite)
RECURSIVE DeepUpdateNoOverwrite(_, _)
DeepUpdateNoOverwrite(m, d) ==
    M([k \in DOMAIN m.m \cup DOMAIN d.m |->
        IF k \notin DOMAIN d.m THEN m.m[k]
        ELSE IF k \notin DOMAIN m.m THEN d.m[k]
        ELSE IF IsMap(d.m[k]) /\ IsMap(m.m[k])
             THEN DeepUpdateNoOverwrite(m.m[k], d.m[k])
        ELSE IF IsMap(d.m[k]) THEN d.m[k]
        ELSE m.m[k]])

\* mapstr.M.DeepUpdate(d): nested maps merge recursively; a value of d that is
\* not a map overwrites; a map of d replaces an old value that is no map (or
\* is a nil map)
RECURSIVE DeepUpdate(_, _)
DeepUpdate(m, d) ==
    M([k \in DOMAIN m.m \cup DOMAIN d.m |->
        IF k \notin DOMAIN d.m THEN m.m[k]
        ELSE IF k \notin DOMAIN m.m THEN d.m[k]
        ELSE IF IsMap(d.m[k]) /\ IsMap(m.m[k])
             THEN DeepUpdate(m.m[k], d.m[k])
        ELSE d.m[k]])

(* --------------------------- resources -------------------------------- *)

NameSeq == <<"o1", "o2", "o3", "o4">>

\* owner names an OwnerReference may carry; the struct allows the empty name
OwnerNames == {NameSeq[i] : i \in 1..MaxNames} \cup {""}

NameIdx(n) == IF n = "" THEN MaxNames + 1
              ELSE CHOOSE i \in 1..MaxNames : NameSeq[i] = n

NoOwner == [kind |-> "", name |-> ""]

\* the controller OwnerReference of a resource, if any
OwnerRefs == {NoOwner} \cup
             [kind : {"ReplicaSet", "Job", "Deployment"}, name : OwnerNames]

\* kubernetes.Pod: metadata.name, the controller owner reference,
\* spec.nodeName and status.podIP
Pods == [kind : {"Pod"}, name : {"p1"}, owner : OwnerRefs,
         nodeName : {"n1"}, podIP : {"", "10.0.0.5"}]

\* a kubernetes.Resource that is not a Pod
NonPods == [kind : {"Node"}, name : {"n1"}, owner : {NoOwner},
            nodeName : {""}, podIP : {""}]

Resources == Pods \cup NonPods

\* no type check: every resource is taken for a Pod
IsAnyResource(obj) == obj.kind # ""

\* obj.(*kubernetes.Pod)
IsPod(obj) == obj.kind = "Pod"

\* strings.ToLower(ref.Kind)
ToLower(kind) == CASE kind = "ReplicaSet" -> "replicaset"
                   [] kind = "Job" -> "job"
                   [] kind = "Deployment" -> "deployment"
                   [] OTHER -> kind

\* FieldOptions: no option, or WithFields(key, value)
NoOpts == <<>>
WithFields(path, v) == [path |-> path, value |-> v]
Options == {NoOpts,
            <<WithFields(<<"node", "hostname">>, Str("h1"))>>}

RECURSIVE ApplyOptions(_, _)
ApplyOptions(meta, opts) ==
    IF opts = <<>> THEN meta
    ELSE ApplyOptions(Put(meta, Head(opts).path, Head(opts).value), Tail(opts))

\* p.resource.GenerateK8s("pod", obj, opts...): the native fields of the
\* resource, the name of its controller under <kind>.name, then the options
ResourceGenerateK8s(kind, obj, opts) ==
    LET meta == M(kind :> M("name" :> Str(obj.name)))
        owned == IF obj.owner = NoOwner THEN meta
                 ELSE Put(meta, <<ToLower(obj.owner.kind), "name">>,
                          Str(obj.owner.name))
    IN ApplyOptions(owned, opts)

\* the standardized-schema documents p.resource is configured to produce
ECSDocs ==
    [none |-> M(EmptyMap),
     cluster |-> M("orchestrator" :> M("cluster" :> M("name" :> Str("c1")))),
     colliding |->
        M(("orchestrator" :> M("cluster" :> M("name" :> Str("c1")))) @@
          ("kubernetes" :>
             M(("pod" :> M(("name" :> Str("ecs-pod")) @@
                           ("ip" :> M("v4" :> Str("ecs-ip"))))) @@
               ("node" :> Str("ecs-node")))))]

\* p.resource.GenerateECS(obj)
ResourceGenerateECS(resource, obj) == ECSDocs[resource]

(* --------------------------- peer resolvers --------------------------- *)

\* documents a peer resolver's GenerateFromName may return
PeerDocs ==
    <<NilM,
      M(("replicaset" :> M("name" :> Str("rs"))) @@
        ("deployment" :> M("name" :> Str("dep1")))),
      M(("job" :> M("name" :> Str("jb"))) @@
        ("cronjob" :> M("name" :> Str("cj1")))),
      M("replicaset" :> M("name" :> Str("rs"))),
      M(("deployment" :> M("name" :> Str(""))) @@
        ("cronjob" :> M("name" :> Str(""))))>>

\* a MetaGen holding a cache of documents by name
Gen(tbl) == [t |-> "gen", tbl |-> tbl]

OwnerGen(v) ==
    Gen([n \in OwnerNames |->
            PeerDocs[((NameIdx(n) + v - 1) % Len(PeerDocs)) + 1]])

OwnerGens == {OwnerGen(v) : v \in {0, 1, 2}}

NodeDoc == M("node" :> M(("name" :> Str("n1")) @@
                         ("labels" :> M("zone" :> Str("z1")))))

NodeGens == {Gen("n1" :> NilM), Gen("n1" :> NodeDoc),
             Gen("n1" :> M("kind" :> Str("node")))}

\* MetaGen.GenerateFromName(name) of a peer resolver
PeerGenerateFromName(gen, name) ==
    IF name \in DOMAIN gen.tbl THEN gen.tbl[name] ELSE NilM

(* ------------------------------ the store ----------------------------- *)

StoredPod == [kind |-> "Pod", name |-> "p1",
              owner |-> [kind |-> "ReplicaSet", name |-> "o1"],
              nodeName |-> "n1", podIP |-> "10.0.0.5"]

StoredJobPod == [kind |-> "Pod", name |-> "p2",
                 owner |-> [kind |-> "Job", name |-> "o2"],
                 nodeName |-> "n1", podIP |-> ""]

StoredNode == [kind |-> "Node", name |-> "n1", owner |-> NoOwner,
               nodeName |-> "", podIP |-> ""]

\* cache.Store contents, by key
PodStore == [t |-> "store",
             items |-> ("p1" :> StoredPod) @@ ("p2" :> StoredJobPod) @@
                       ("n1" :> StoredNode)]

StoreKeys == {"p1", "p2", "n1", "missing-pod"}

\* p.store.GetByKey(name): <<obj, ok>>
GetByKey(store, name) ==
    IF name \in DOMAIN store.items THEN <<store.items[name], TRUE>>
    ELSE <<NilV, FALSE>>

(* ------------------------- GenerateK8s, by hop ------------------------ *)

\* one GenerateFromName invocation made on a peer resolver
Invocation(hop, resolver, name) ==
    [hop |-> hop, resolver |-> resolver, name |-> name]

\* what a hop leaves behind: the document, the peer invocations it made, and
\* whether it panicked
HopResult(out, calls, panicked) ==
    [out |-> out, calls |-> calls, panicked |-> panicked]

\* meta.GetValue("deployment.name"); if deploymentName != "" { out.Put(...) }
\* (a nil interface value compares unequal to the string "")
PutOwnerName(out, meta, path) ==
    LET ownerName == GetValue(meta, path)
    IN IF ownerName # Str("") THEN Put(out, path, ownerName) ELSE out

\* the Deployment hop with rsName, _ := rsName.(string): a missing field is
\* looked up as the empty name
DeploymentHopUncheckedName(pp, out) ==
    IF pp.addResourceMetadata.Deployment /\ pp.replicaset # NilV
    THEN LET rsName == GetValue(out, <<"replicaset", "name">>)
             name == IF IsString(rsName) THEN rsName.s ELSE ""
             meta == PeerGenerateFromName(pp.replicaset, name)
         IN HopResult(PutOwnerName(out, meta, <<"deployment", "name">>),
                      <<Invocation("deployment", "replicaset", name)>>, FALSE)
    ELSE HopResult(out, <<>>, FALSE)

\* the Deployment hop without the addResourceMetadata.Deployment check
DeploymentHopAnyFlag(pp, out) ==
    IF pp.replicaset # NilV
    THEN LET rsName == GetValue(out, <<"replicaset", "name">>)
         IN IF IsString(rsName)
            THEN LET meta == PeerGenerateFromName(pp.replicaset, rsName.s)
                 IN HopResult(PutOwnerName(out, meta, <<"deployment", "name">>),
                              <<Invocation("deployment", "replicaset", rsName.s)>>,
                              FALSE)
            ELSE HopResult(out, <<>>, FALSE)
    ELSE HopResult(out, <<>>, FALSE)

\* Deployment->ReplicaSet->Pod
DeploymentHop(pp, out) ==
    IF pp.addResourceMetadata.Deployment /\ pp.replicaset # NilV
    THEN LET rsName == GetValue(out, <<"replicaset", "name">>)
         IN IF IsString(rsName)
            THEN LET meta == PeerGenerateFromName(pp.replicaset, rsName.s)
                 IN HopResult(PutOwnerName(out, meta, <<"deployment", "name">>),
                              <<Invocation("deployment", "replicaset", rsName.s)>>,
                              FALSE)
            ELSE HopResult(out, <<>>, FALSE)
    ELSE HopResult(out, <<>>, FALSE)

\* CronJob->Job->Pod; the lookup goes through p.replicaset, and calling a
\* method on the nil interface panics
CronJobHop(pp, out) ==
    IF pp.addResourceMetadata.CronJob /\ pp.job # NilV
    THEN LET jobName == GetValue(out, <<"job", "name">>)
         IN IF IsString(jobName)
            THEN IF pp.replicaset = NilV
                 THEN HopResult(out, <<>>, TRUE)
                 ELSE LET meta == PeerGenerateFromName(pp.replicaset, jobName.s)
                      IN HopResult(PutOwnerName(out, meta, <<"cronjob", "name">>),
                                   <<Invocation("cronjob", "replicaset", jobName.s)>>,
                                   FALSE)
            ELSE HopResult(out, <<>>, FALSE)
    ELSE HopResult(out, <<>>, FALSE)

\* the node hop writing only node.name into the resolver's hit as well
NodeHopNameOnly(pp, po, out) == Put(out, <<"node", "name">>, Str(po.nodeName))

\* p.node.GenerateFromName(po.Spec.NodeName, WithMetadata("node"))
NodeHop(pp, po, out) ==
    IF pp.node # NilV
    THEN LET meta == PeerGenerateFromName(pp.node, po.nodeName)
         IN IF meta # NilM
            THEN Put(out, <<"node">>, Index(meta, "node"))
            ELSE Put(out, <<"node", "name">>, Str(po.nodeName))
    ELSE Put(out, <<"node", "name">>, Str(po.nodeName))

\* if po.Status.PodIP != "" { out.Put("pod.ip", po.Status.PodIP) }
PodIPHop(po, out) ==
    IF po.podIP # "" THEN Put(out, <<"pod", "ip">>, Str(po.podIP)) ELSE out

\* GenerateK8s as one function of the resolver and its arguments: the value
\* returned, or Panic
GenerateK8s(pp, obj, opts) ==
    IF ~IsPod(obj) THEN NilM
    ELSE LET base == ResourceGenerateK8s("pod", obj, opts)
             dep == DeploymentHop(pp, base)
             cron == CronJobHop(pp, dep.out)
         IN IF cron.panicked THEN Panic
            ELSE PodIPHop(obj, NodeHop(pp, obj, cron.out))

\* GenerateFromName's lookup: the Pod stored under name, or nil when the store
\* is unset, the key is absent or the object is not a Pod
LookupPod(pp, name) ==
    IF pp.store = NilV THEN NilV
    ELSE LET r == GetByKey(pp.store, name)
         IN IF r[2] /\ IsPod(r[1]) THEN r[1] ELSE NilV

(* ------------------------------- state -------------------------------- *)

Callers == {"c1", "c2"}

\* the locals of a call: pc is the statement the caller is at
\* (opts is the caller's argument, k8sOpts what GenerateK8s was handed)
IdleFrame == [pc |-> "idle", op |-> "", obj |-> NilV, name |-> "",
              opts |-> NoOpts, k8sOpts |-> NoOpts,
              ecsFields |-> NilM, out |-> NilM,
              calls |-> <<>>, result |-> NilM]

\* out kept in one place shared by all callers instead of a local
SharedOut(c) == frame["c1"].out

\* the local variable out of GenerateK8s, one per call
Out(c) == frame[c].out

\* the pod struct built by NewPodMetadataGenerator
Resolvers ==
    [store : {NilV, PodStore},
     node : {NilV} \cup NodeGens,
     replicaset : {NilV} \cup OwnerGens,
     job : {NilV} \cup OwnerGens,
     resource : {"none", "cluster", "colliding"},
     addResourceMetadata : [Deployment : BOOLEAN, CronJob : BOOLEAN]]

Init ==
    /\ p \in Resolvers
    /\ frame = [c \in Callers |-> IdleFrame]

(* ------------------------------ actions ------------------------------- *)

\* a caller invokes Generate(obj, opts...)
CallGenerate(c, objs, optset) ==
    /\ frame[c].pc = "idle"
    /\ \E obj \in objs, opts \in optset :
         frame' = [frame EXCEPT ![c] =
                     [IdleFrame EXCEPT !.pc = "generate", !.op = "Generate",
                                       !.obj = obj, !.opts = opts,
                                       !.k8sOpts = opts]]
    /\ UNCHANGED p

\* a caller invokes GenerateK8s(obj, opts...)
CallGenerateK8s(c, objs, optset) ==
    /\ frame[c].pc = "idle"
    /\ \E obj \in objs, opts \in optset :
         frame' = [frame EXCEPT ![c] =
                     [IdleFrame EXCEPT !.pc = "k8s", !.op = "GenerateK8s",
                                       !.obj = obj, !.opts = opts,
                                       !.k8sOpts = opts]]
    /\ UNCHANGED p

\* a caller invokes GenerateFromName(name, opts...)
CallGenerateFromName(c, keys, optset) ==
    /\ frame[c].pc = "idle"
    /\ \E name \in keys, opts \in optset :
         frame' = [frame EXCEPT ![c] =
                     [IdleFrame EXCEPT !.pc = "fromname",
                                       !.op = "GenerateFromName",
                                       !.name = name, !.opts = opts]]
    /\ UNCHANGED p

\* Generate: ecsFields := p.GenerateECS(obj)
GenerateECS(c) ==
    /\ frame[c].pc = "generate"
    /\ frame' = [frame EXCEPT
                   ![c].ecsFields = ResourceGenerateECS(p.resource, frame[c].obj),
                   ![c].pc = "k8s"]
    /\ UNCHANGED p

\* return p.GenerateK8s(po) without the caller's options
DelegateWithoutOpts(f, po) ==
    [f EXCEPT !.obj = po, !.k8sOpts = NoOpts, !.pc = "k8s"]

\* return p.GenerateK8s(po, opts...)
Delegate(f, po) == [f EXCEPT !.obj = po, !.k8sOpts = f.opts, !.pc = "k8s"]

\* GenerateFromName: the store lookup, then the delegation to GenerateK8s
Lookup(c) ==
    /\ frame[c].pc = "fromname"
    /\ LET po == LookupPod(p, frame[c].name)
       IN frame' = IF po = NilV
                   THEN [frame EXCEPT ![c].result = NilM, ![c].pc = "done"]
                   ELSE [frame EXCEPT ![c] = Delegate(frame[c], po)]
    /\ UNCHANGED p

\* the frame once GenerateK8s has returned ret to its caller
K8sReturn(f, ret) ==
    IF f.op = "Generate"
    THEN [f EXCEPT !.out = ret, !.pc = "merge"]
    ELSE [f EXCEPT !.out = ret, !.result = ret, !.pc = "done"]

\* GenerateK8s: the type check and the base document
TypeCheck(c) ==
    /\ frame[c].pc = "k8s"
    /\ frame' = IF ~IsPod(frame[c].obj)
                THEN [frame EXCEPT ![c] = K8sReturn(frame[c], NilM)]
                ELSE [frame EXCEPT
                        ![c].out = ResourceGenerateK8s("pod", frame[c].obj,
                                                       frame[c].k8sOpts),
                        ![c].pc = "deployment"]
    /\ UNCHANGED p

Deployment(c) ==
    /\ frame[c].pc = "deployment"
    /\ LET r == DeploymentHop(p, Out(c))
       IN frame' = [frame EXCEPT ![c].out = r.out,
                                 ![c].calls = frame[c].calls \o r.calls,
                                 ![c].pc = "cronjob"]
    /\ UNCHANGED p

CronJob(c) ==
    /\ frame[c].pc = "cronjob"
    /\ LET r == CronJobHop(p, Out(c))
       IN frame' = IF r.panicked
                   THEN [frame EXCEPT ![c].result = Panic, ![c].pc = "done"]
                   ELSE [frame EXCEPT ![c].out = r.out,
                                      ![c].calls = frame[c].calls \o r.calls,
                                      ![c].pc = "node"]
    /\ UNCHANGED p

Node(c) ==
    /\ frame[c].pc = "node"
    /\ frame' = [frame EXCEPT ![c].out = NodeHop(p, frame[c].obj, Out(c)),
                              ![c].pc = "ip"]
    /\ UNCHANGED p

PodIP(c) ==
    /\ frame[c].pc = "ip"
    /\ frame' = [frame EXCEPT
                   ![c] = K8sReturn(frame[c], PodIPHop(frame[c].obj, Out(c)))]
    /\ UNCHANGED p

\* Generate: meta := {"kubernetes": GenerateK8s(...)}; meta.DeepUpdate(ecsFields)
Merge(c) ==
    /\ frame[c].pc = "merge"
    /\ frame' = [frame EXCEPT
                   ![c].result = DeepUpdate(M("kubernetes" :> Out(c)),
                                            frame[c].ecsFields),
                   ![c].pc = "done"]
    /\ UNCHANGED p

\* the caller takes the result; its frame is gone
Return(c) ==
    /\ frame[c].pc = "done"
    /\ frame' = [frame EXCEPT ![c] = IdleFrame]
    /\ UNCHANGED p

Step(c) ==
    \/ GenerateECS(c)
    \/ Lookup(c)
    \/ TypeCheck(c)
    \/ Deployment(c)
    \/ CronJob(c)
    \/ Node(c)
    \/ PodIP(c)
    \/ Merge(c)
    \/ Return(c)

\* one caller, every resolver configuration and every input
Next ==
    \E c \in {"c1"} :
        \/ CallGenerate(c, Resources, Options)
        \/ CallGenerateK8s(c, Resources, Options)
        \/ CallGenerateFromName(c, StoreKeys, Options)
        \/ Step(c)

Spec == Init /\ [][Next]_vars

\* two callers on one shared resolver, interleaved in any order
ConcResolvers ==
    [store : {PodStore},
     node : {NilV, Gen("n1" :> NodeDoc)},
     replicaset : {NilV, OwnerGen(1)},
     job : {OwnerGen(1)},
     resource : {"colliding"},
     addResourceMetadata : [Deployment : BOOLEAN, CronJob : BOOLEAN]]

ConcResources == {StoredPod, StoredJobPod, StoredNode}

InitConc ==
    /\ p \in ConcResolvers
    /\ frame = [c \in Callers |-> IdleFrame]

NextConc ==
    \E c \in Callers :
        \/ CallGenerate(c, ConcResources, {NoOpts})
        \/ CallGenerateK8s(c, {StoredPod}, {NoOpts})
        \/ CallGenerateFromName(c, {"p2", "missing-pod"}, {NoOpts})
        \/ Step(c)

SpecConc == InitConc /\ [][NextConc]_vars

(* ------------------------------ claims -------------------------------- *)

DeploymentName == <<"deployment", "name">>
CronJobName == <<"cronjob", "name">>

Done(c) == frame[c].pc = "done"

\* the call ran GenerateK8s on a Pod to its end
K8sOnPod(c) ==
    /\ Done(c)
    /\ frame[c].op \in {"GenerateK8s", "GenerateFromName"}
    /\ frame[c].obj \in Pods

\* the base document of the call's Pod
Base(c) == ResourceGenerateK8s("pod", frame[c].obj, frame[c].opts)

\* the document the peer invoked by an invocation returned
Returned(call) == PeerGenerateFromName(p[call.resolver], call.name)

\* C1: with the CronJob flag enabled and a Job resolver supplied, a Pod with
\* job.name = j gets cronjob.name = c whenever the Job resolver's
\* GenerateFromName(j) yields cronjob.name = c (non-empty), whatever the
\* ReplicaSet resolver holds under j.
C1_CronJobThroughJobResolver ==
    \A c \in Callers :
        (K8sOnPod(c) /\ p.addResourceMetadata.CronJob /\ p.job # NilV) =>
            LET jobName == GetValue(Base(c), <<"job", "name">>)
            IN IsString(jobName) =>
                 LET cj == GetValue(PeerGenerateFromName(p.job, jobName.s),
                                    CronJobName)
                 IN (IsString(cj) /\ cj # Str("")) =>
                       /\ IsMap(frame[c].result)
                       /\ GetValue(frame[c].result, CronJobName) = cj

\* C2: the returned document holds no deployment.name (cronjob.name) key at
\* all when the lookup made for that hop returned nil or a document without
\* that name.
C2_NoFieldForUnresolvedHop ==
    \A c \in Callers :
        (K8sOnPod(c) /\ IsMap(frame[c].result)) =>
            \A i \in DOMAIN frame[c].calls :
                LET call == frame[c].calls[i]
                    path == IF call.hop = "deployment" THEN DeploymentName
                            ELSE CronJobName
                IN (~HasKey(Returned(call), path) /\ ~HasKey(Base(c), path))
                      => ~HasKey(frame[c].result, path)

\* C3: whatever resolvers are configured and whatever the flags, GenerateK8s
\* on a Pod completes and returns a document.
C3_MissingResolverNeverFails ==
    \A c \in Callers :
        (Done(c) /\ frame[c].op = "GenerateK8s" /\ frame[c].obj \in Pods)
            => IsMap(frame[c].result)

\* C4 as stated: for a resource that is not a Pod both GenerateK8s and
\* Generate return a nil or empty result.
C4_NonPodNilOrEmpty ==
    \A c \in Callers :
        (Done(c) /\ frame[c].op \in {"GenerateK8s", "Generate"}
                 /\ frame[c].obj \in NonPods)
            => frame[c].result \in {NilM, M(EmptyMap)}

\* C4 as amended: for a resource that is not a Pod neither call panics;
\* GenerateK8s returns nil, and Generate returns a non-nil document holding
\* every top-level key of GenerateECS(obj) with its value, and the native
\* namespace key with the value nil when GenerateECS(obj) has no such key.
C4_NonPodNoNativeFields ==
    \A c \in Callers :
        (Done(c) /\ frame[c].obj \in NonPods) =>
            /\ frame[c].op = "GenerateK8s" => frame[c].result = NilM
            /\ frame[c].op = "Generate" =>
                 LET ecs == ResourceGenerateECS(p.resource, frame[c].obj)
                     res == frame[c].result
                 IN /\ IsMap(res)
                    /\ DOMAIN res.m = {"kubernetes"} \cup DOMAIN ecs.m
                    /\ \A k \in DOMAIN res.m :
                          res.m[k] = IF k \in DOMAIN ecs.m THEN ecs.m[k]
                                     ELSE NilM

C4_Witness ==
    \E c \in Callers :
        /\ Done(c) /\ frame[c].op = "Generate"
        /\ frame[c].obj \in NonPods
        /\ IsMap(frame[c].result)
        /\ frame[c].result.m["kubernetes"] = NilM

\* C5: with the Deployment flag enabled and a ReplicaSet resolver supplied, a
\* Pod with replicaset.name = rs gets deployment.name = d whenever the
\* resolver's GenerateFromName(rs) yields deployment.name = d (non-empty);
\* with the flag disabled or no ReplicaSet resolver the hop invokes no
\* resolver and leaves the document's deployment field as the base has it.
C5_DeploymentHop ==
    \A c \in Callers :
        K8sOnPod(c) =>
            IF p.addResourceMetadata.Deployment /\ p.replicaset # NilV
            THEN LET rsName == GetValue(Base(c), <<"replicaset", "name">>)
                 IN IsString(rsName) =>
                      LET d == GetValue(
                                 PeerGenerateFromName(p.replicaset, rsName.s),
                                 DeploymentName)
                      IN (IsString(d) /\ d # Str("")) =>
                            /\ IsMap(frame[c].result)
                            /\ GetValue(frame[c].result, DeploymentName) = d
            ELSE /\ \A i \in DOMAIN frame[c].calls :
                        frame[c].calls[i].hop # "deployment"
                 /\ IsMap(frame[c].result) =>
                        /\ HasKey(frame[c].result, <<"deployment">>)
                              = HasKey(Base(c), <<"deployment">>)
                        /\ Index(frame[c].result, "deployment")
                              = Index(Base(c), "deployment")

C5_Witness ==
    \E c \in Callers :
        /\ K8sOnPod(c)
        /\ p.addResourceMetadata.Deployment /\ p.replicaset # NilV
        /\ GetValue(Base(c), <<"replicaset", "name">>) = Str("o1")
        /\ ~HasKey(Base(c), DeploymentName)
        /\ GetValue(frame[c].result, DeploymentName) = Str("dep1")

\* C6: the node hop, for a Pod on node n: when a Node resolver is configured
\* and its GenerateFromName(n) is non-nil, the document's node key becomes
\* that document's node value, replacing what was there; otherwise the hop
\* writes node.name = n and nothing else. No other key changes, and the
\* rest of GenerateK8s leaves the node key as the hop set it.
C6_NodeHop ==
    [][\A c \in Callers :
        /\ (frame[c].pc = "ip" /\ frame'[c].pc \in {"done", "merge"}) =>
             /\ IsMap(frame'[c].out)
             /\ frame'[c].out.m["node"] = frame[c].out.m["node"]
        /\ (frame[c].pc = "node" /\ frame'[c].pc = "ip") =>
             LET old == frame[c].out
                 new == frame'[c].out
                 n == frame[c].obj.nodeName
                 meta == IF p.node = NilV THEN NilM
                         ELSE PeerGenerateFromName(p.node, n)
             IN /\ IsMap(new)
                /\ DOMAIN new.m = DOMAIN old.m \cup {"node"}
                /\ \A k \in DOMAIN old.m \ {"node"} : new.m[k] = old.m[k]
                /\ IF p.node # NilV /\ meta # NilM
                   THEN new.m["node"] = Index(meta, "node")
                   ELSE IF "node" \in DOMAIN old.m
                        THEN /\ IsMap(new.m["node"])
                             /\ DOMAIN new.m["node"].m
                                  = DOMAIN old.m["node"].m \cup {"name"}
                             /\ \A k \in DOMAIN new.m["node"].m :
                                   new.m["node"].m[k] =
                                     IF k = "name" THEN Str(n)
                                     ELSE old.m["node"].m[k]
                        ELSE new.m["node"] = M("name" :> Str(n))]_vars

\* a resolved node document has replaced the partial node information the
\* base document carried
C6_Witness ==
    \E c \in Callers :
        /\ frame[c].pc = "ip"
        /\ HasKey(Base(c), <<"node", "hostname">>)
        /\ p.node # NilV
        /\ PeerGenerateFromName(p.node, frame[c].obj.nodeName) = NodeDoc
        /\ frame[c].out.m["node"] = NodeDoc.m["node"]
        /\ ~HasKey(frame[c].out, <<"node", "hostname">>)

\* C7: GenerateFromName(name, opts) returns nil when the store is unset, has
\* nothing under name or holds an object that is not a Pod; otherwise what
\* GenerateK8s returns for the stored Pod and the same options.
C7_GenerateFromName ==
    \A c \in Callers :
        (Done(c) /\ frame[c].op = "GenerateFromName") =>
            frame[c].result =
                IF p.store = NilV THEN NilM
                ELSE IF frame[c].name \notin DOMAIN p.store.items THEN NilM
                ELSE IF p.store.items[frame[c].name].kind # "Pod" THEN NilM
                ELSE GenerateK8s(p, p.store.items[frame[c].name], frame[c].opts)

C7_Witness ==
    \E c \in Callers :
        /\ Done(c) /\ frame[c].op = "GenerateFromName"
        /\ frame[c].name = "p1"
        /\ frame[c].opts # NoOpts
        /\ IsMap(frame[c].result)
        /\ GetValue(frame[c].result, <<"pod", "ip">>) = Str("10.0.0.5")

\* the leaves of a document: <<path, value>> for every value that is not a
\* non-empty map
RECURSIVE Leaves(_, _)
Leaves(v, prefix) ==
    IF IsMap(v) /\ DOMAIN v.m # {}
    THEN UNION {Leaves(v.m[k], Append(prefix, k)) : k \in DOMAIN v.m}
    ELSE {<<prefix, v>>}

IsPrefix(a, b) == Len(a) <= Len(b) /\ SubSeq(b, 1, Len(a)) = a

\* C8: Generate(r, opts) is {"kubernetes": GenerateK8s(r, opts)} deep-merged
\* with GenerateECS(r): its leaves are the leaves of the ECS document and
\* those native leaves that no ECS leaf lies on, above or below.
C8_MergeLaw ==
    \A c \in Callers :
        (Done(c) /\ frame[c].op = "Generate") =>
            LET k8s == GenerateK8s(p, frame[c].obj, frame[c].opts)
                ecsDoc == ResourceGenerateECS(p.resource, frame[c].obj)
                ecs == IF DOMAIN ecsDoc.m = {} THEN {}
                       ELSE Leaves(ecsDoc, <<>>)
                native == Leaves(M("kubernetes" :> k8s), <<>>)
            IN IF k8s = Panic THEN frame[c].result = Panic
               ELSE /\ IsMap(frame[c].result)
                    /\ Leaves(frame[c].result, <<>>) =
                         ecs \cup
                         {l \in native :
                            \A e \in ecs : /\ ~IsPrefix(e[1], l[1])
                                           /\ ~IsPrefix(l[1], e[1])}

\* a Pod's native name was overwritten by the ECS leaf on the same path while
\* a native field the ECS document does not carry is kept
C8_Witness ==
    \E c \in Callers :
        /\ Done(c) /\ frame[c].op = "Generate"
        /\ frame[c].obj \in Pods
        /\ IsMap(frame[c].result)
        /\ GetValue(frame[c].result, <<"kubernetes", "pod", "name">>)
              = Str("ecs-pod")
        /\ GetValue(frame[c].result, <<"kubernetes", "replicaset", "name">>)
              = Str("o1")

\* C9: no step of any call writes the resolver (its configuration, store and
\* peers), and two Generate calls with the same input on it end with the
\* same document, however the callers' steps interleave.
C9_Stateless ==
    [][/\ p' = p
       /\ \A c, d \in Callers :
            ( /\ frame'[c].pc = "done" /\ frame'[d].pc = "done"
              /\ frame'[c].op = "Generate" /\ frame'[d].op = "Generate"
              /\ frame'[c].obj = frame'[d].obj
              /\ frame'[c].opts = frame'[d].opts )
            => frame'[c].result = frame'[d].result]_vars

C9_Witness ==
    /\ Done("c1") /\ Done("c2")
    /\ frame["c1"].op = "Generate" /\ frame["c2"].op = "Generate"
    /\ frame["c1"].obj = StoredPod /\ frame["c2"].obj = StoredPod
    /\ IsMap(frame["c1"].result)
    /\ frame["c1"].result = frame["c2"].result

\* C10 as stated: an owner hop never invokes a resolver with the empty name.
C10_NeverEmptyName ==
    \A c \in Callers :
        \A i \in DOMAIN frame[c].calls : frame[c].calls[i].name # ""

\* the base document's field an owner hop reads its lookup name from
NameField(hop) == IF hop = "deployment" THEN <<"replicaset", "name">>
                  ELSE <<"job", "name">>

\* C10 as amended: an owner hop invokes a resolver only with the string the
\* base document holds under replicaset.name (job.name), which may be the
\* empty string; never when the field is absent or not a string, and at most
\* once per hop.
C10_OnlyTheStringName ==
    \A c \in Callers :
        /\ \A i \in DOMAIN frame[c].calls :
              GetValue(Base(c), NameField(frame[c].calls[i].hop))
                 = Str(frame[c].calls[i].name)
        /\ \A i, j \in DOMAIN frame[c].calls :
              frame[c].calls[i].hop = frame[c].calls[j].hop => i = j

C10_Witness ==
    \E c \in Callers :
        /\ Done(c)
        /\ Len(frame[c].calls) = 1
        /\ frame[c].calls[1].hop = "deployment"
        /\ frame[c].calls[1].name = ""

====
